---- MODULE Spec2Model ----
(***************************************************************************)
(* Model of aws-c-cal's source/ecc.c: the curve registry, the DER          *)
(* key-material decoder aws_der_decoder_load_ecc_key_pair, and the         *)
(* reference-counted key-pair handle with its vtable dispatch.             *)
(*                                                                         *)
(* Two specifications share the module:                                    *)
(*   Spec         one call of aws_der_decoder_load_ecc_key_pair over a     *)
(*                token stream the DER decoder hands out token by token;   *)
(*   SpecKeyPair  threads calling acquire / release / the four forwarding  *)
(*                operations on one key pair.                              *)
(***************************************************************************)
EXTENDS Integers, Sequences, FiniteSets, TLC

VARIABLES
    \* ---- aws_der_decoder_load_ecc_key_pair ----
    stream,                 \* the tokens aws_der_decoder_next has produced so far
    out_before,             \* what the three output cursors held when the call was made
    dpc,                    \* position in the function: "call", "scan", "done"
    out_public_x_coor,      \* *out_public_x_coor
    out_public_y_coor,      \* *out_public_y_coor
    out_private_d,          \* *out_private_d
    out_curve_name,         \* *out_curve_name
    pair_part_1,            \* local cursor
    pair_part_2,            \* local cursor
    current_part,           \* 1: &pair_part_1, 2: &pair_part_2
    curve_name_recognized,  \* local bool
    ret,                    \* the value returned, "none" before the return
    \* ---- struct aws_ecc_key_pair and its callers ----
    ref_count,              \* key_pair->ref_count
    vtable,                 \* the capabilities key_pair->vtable provides
    held,                   \* held[t]: owning references thread t holds
    kpc,                    \* kpc[t]: "idle", or "released" between the fetch-sub and the test
    old_value,              \* old_value[t]: the local of aws_ecc_key_pair_release
    destroy_calls,          \* times vtable->destroy has been invoked
    destroyed_at,           \* ref_count and old_value seen by each vtable->destroy invocation
    aborted,                \* AWS_FATAL_ASSERT has terminated the process
    last_call,              \* the most recent vtable-checked operation and what came of it
    acquires,               \* completed aws_ecc_key_pair_acquire calls
    releases                \* aws_ecc_key_pair_release calls whose fetch-sub has run

decoder_vars == <<stream, out_before, dpc, out_public_x_coor, out_public_y_coor, out_private_d,
                  out_curve_name, pair_part_1, pair_part_2, current_part,
                  curve_name_recognized, ret>>

key_pair_vars == <<ref_count, vtable, held, kpc, old_value, destroy_calls, destroyed_at,
                   aborted, last_call, acquires, releases>>

vars == <<decoder_vars, key_pair_vars>>

(***************************************************************************)
(* Bounds of the model.                                                    *)
(***************************************************************************)
MaxTokens == 4      \* tokens a stream holds at most
NumThreads == 3     \* threads sharing the key pair
MaxAcquires == 3    \* aws_ecc_key_pair_acquire calls in one behaviour

(***************************************************************************)
(* Curve registry.                                                         *)
(***************************************************************************)
AWS_CAL_ECDSA_P256 == "AWS_CAL_ECDSA_P256"
AWS_CAL_ECDSA_P384 == "AWS_CAL_ECDSA_P384"

s_p256_oid == <<42, 134, 72, 206, 61, 3, 1, 7>>   \* 2A 86 48 CE 3D 03 01 07
s_p384_oid == <<43, 129, 4, 0, 34>>               \* 2B 81 04 00 22

AWS_OP_SUCCESS == "AWS_OP_SUCCESS"
AWS_ERROR_CAL_UNKNOWN_OBJECT_IDENTIFIER == "AWS_ERROR_CAL_UNKNOWN_OBJECT_IDENTIFIER"
AWS_ERROR_CAL_MISSING_REQUIRED_KEY_COMPONENT == "AWS_ERROR_CAL_MISSING_REQUIRED_KEY_COMPONENT"

\* aws_byte_cursor_eq on two byte strings: same length, same bytes.
aws_byte_cursor_eq(a, b) ==
    /\ Len(a) = Len(b)
    /\ \A i \in 1..Len(a) : a[i] = b[i]

\* aws_ecc_curve_name_from_oid: the status and the value *curve_name holds afterwards
\* (untouched on failure).
aws_ecc_curve_name_from_oid(oid, curve_name) ==
    IF aws_byte_cursor_eq(oid, s_p256_oid)
    THEN [rc |-> AWS_OP_SUCCESS, curve_name |-> AWS_CAL_ECDSA_P256]
    ELSE IF aws_byte_cursor_eq(oid, s_p384_oid)
    THEN [rc |-> AWS_OP_SUCCESS, curve_name |-> AWS_CAL_ECDSA_P384]
    ELSE [rc |-> AWS_ERROR_CAL_UNKNOWN_OBJECT_IDENTIFIER, curve_name |-> curve_name]

aws_ecc_key_coordinate_byte_size_from_curve_name(curve_name) ==
    CASE curve_name = AWS_CAL_ECDSA_P256 -> 32
      [] curve_name = AWS_CAL_ECDSA_P384 -> 48
      [] OTHER -> 0

(***************************************************************************)
(* Byte cursors: a pointer (region, token, offset) and a length.  The      *)
(* views the decoder returns borrow the decoder's buffer.                  *)
(***************************************************************************)
NullPtr == [region |-> "null", tok |-> 0, off |-> 0]
ZeroCursor == [ptr |-> NullPtr, len |-> 0]              \* AWS_ZERO_STRUCT
StaleBytes == <<222, 173, 190, 239>>                    \* a caller buffer from an earlier use
StaleCursor == [ptr |-> [region |-> "caller", tok |-> 0, off |-> 0], len |-> Len(StaleBytes)]

\* The bytes a cursor views, read through its pointer.
CursorBytes(c) ==
    IF c.ptr.region = "null" \/ c.len = 0 THEN <<>>
    ELSE IF c.ptr.region = "caller" THEN SubSeq(StaleBytes, c.ptr.off + 1, c.ptr.off + c.len)
    ELSE SubSeq(stream[c.ptr.tok].value, c.ptr.off + 1, c.ptr.off + c.len)

(***************************************************************************)
(* The token streams the DER decoder can hand out.                         *)
(***************************************************************************)
\* A byte string of the given length and first byte whose other bytes differ by position.
Blob(len, first) == [i \in 1..len |-> IF i = 1 THEN first ELSE (i * 7 + len) % 256]

ec_public_key_oid == <<42, 134, 72, 206, 61, 2, 1>>    \* 1.2.840.10045.2.1, not a curve

Tokens ==
    { [type |-> "AWS_DER_OBJECT_IDENTIFIER", value |-> s_p256_oid],
      [type |-> "AWS_DER_OBJECT_IDENTIFIER", value |-> s_p384_oid],
      [type |-> "AWS_DER_OBJECT_IDENTIFIER", value |-> ec_public_key_oid],
      [type |-> "AWS_DER_INTEGER",           value |-> <<1>>],
      [type |-> "AWS_DER_OCTET_STRING",      value |-> Blob(32, 17)],
      [type |-> "AWS_DER_BIT_STRING",        value |-> Blob(65, 4)],
      [type |-> "AWS_DER_BIT_STRING",        value |-> Blob(65, 2)],
      [type |-> "AWS_DER_OCTET_STRING",      value |-> Blob(48, 4)],
      [type |-> "AWS_DER_BIT_STRING",        value |-> Blob(97, 4)],
      [type |-> "AWS_DER_OCTET_STRING",      value |-> <<>>] }

\* aws_der_decoder_tlv_string: the cursor over the current token's bytes.
aws_der_decoder_tlv_string(k) ==
    [ptr |-> [region |-> "der", tok |-> k, off |-> 0], len |-> Len(stream'[k].value)]

(***************************************************************************)
(* aws_der_decoder_load_ecc_key_pair                                       *)
(***************************************************************************)
DecoderInit ==
    /\ stream = <<>>
    /\ dpc = "call"
    /\ \E c \in {ZeroCursor, StaleCursor} :
          /\ out_before = c
          /\ out_public_x_coor = c
          /\ out_public_y_coor = c
          /\ out_private_d = c
    /\ out_curve_name \in {AWS_CAL_ECDSA_P384, "unset"}
    /\ pair_part_1 = ZeroCursor
    /\ pair_part_2 = ZeroCursor
    /\ current_part = 1
    /\ curve_name_recognized = FALSE
    /\ ret = "none"

\* Entry without the three AWS_ZERO_STRUCT(*out_...) statements.
LoadEnterNoZero ==
    /\ UNCHANGED <<key_pair_vars, out_before>>
    /\ dpc = "call"
    /\ dpc' = "scan"
    /\ pair_part_1' = ZeroCursor
    /\ pair_part_2' = ZeroCursor
    /\ curve_name_recognized' = FALSE
    /\ current_part' = 1
    /\ UNCHANGED <<stream, out_public_x_coor, out_public_y_coor, out_private_d,
                   out_curve_name, ret>>

\* Lines 139-153: zero the outputs and the locals.
LoadEnter ==
    /\ UNCHANGED <<key_pair_vars, out_before>>
    /\ dpc = "call"
    /\ dpc' = "scan"
    /\ out_public_x_coor' = ZeroCursor
    /\ out_public_y_coor' = ZeroCursor
    /\ out_private_d' = ZeroCursor
    /\ pair_part_1' = ZeroCursor
    /\ pair_part_2' = ZeroCursor
    /\ curve_name_recognized' = FALSE
    /\ current_part' = 1
    /\ UNCHANGED <<stream, out_curve_name, ret>>

\* aws_der_decoder_next returns true and the decoder stands on token tok.
aws_der_decoder_next(tok) ==
    /\ dpc = "scan"
    /\ Len(stream) < MaxTokens
    /\ stream' = Append(stream, tok)
    /\ UNCHANGED <<key_pair_vars, out_before>>

\* The status of aws_ecc_curve_name_from_oid is ignored: any OID counts as a curve.
ScanObjectIdentifierAnyOid(tok) ==
    /\ tok.type = "AWS_DER_OBJECT_IDENTIFIER"
    /\ aws_der_decoder_next(tok)
    /\ LET r == aws_ecc_curve_name_from_oid(tok.value, out_curve_name)
       IN  /\ out_curve_name' = r.curve_name
           /\ curve_name_recognized' = TRUE
    /\ UNCHANGED <<dpc, out_public_x_coor, out_public_y_coor, out_private_d,
                   pair_part_1, pair_part_2, current_part, ret>>

\* An unmatched OID forgets the curve recognized before.
ScanObjectIdentifierReset(tok) ==
    /\ tok.type = "AWS_DER_OBJECT_IDENTIFIER"
    /\ aws_der_decoder_next(tok)
    /\ LET r == aws_ecc_curve_name_from_oid(tok.value, out_curve_name)
       IN  /\ out_curve_name' = r.curve_name
           /\ curve_name_recognized' = (r.rc = AWS_OP_SUCCESS)
    /\ UNCHANGED <<dpc, out_public_x_coor, out_public_y_coor, out_private_d,
                   pair_part_1, pair_part_2, current_part, ret>>

\* Lines 158-167: an OBJECT_IDENTIFIER token.
ScanObjectIdentifier(tok) ==
    /\ tok.type = "AWS_DER_OBJECT_IDENTIFIER"
    /\ aws_der_decoder_next(tok)
    /\ LET r == aws_ecc_curve_name_from_oid(tok.value, out_curve_name)
       IN  /\ out_curve_name' = r.curve_name
           /\ curve_name_recognized' =
                 (IF r.rc = AWS_OP_SUCCESS THEN TRUE ELSE curve_name_recognized)
    /\ UNCHANGED <<dpc, out_public_x_coor, out_public_y_coor, out_private_d,
                   pair_part_1, pair_part_2, current_part, ret>>

\* The string is dropped once both parts have been written.
ScanStringFirstTwo(tok) ==
    /\ tok.type \in {"AWS_DER_BIT_STRING", "AWS_DER_OCTET_STRING"}
    /\ aws_der_decoder_next(tok)
    /\ LET n == Cardinality({i \in 1..Len(stream) :
                   stream[i].type \in {"AWS_DER_BIT_STRING", "AWS_DER_OCTET_STRING"}})
       IN  /\ pair_part_1' = IF n = 0 THEN aws_der_decoder_tlv_string(Len(stream) + 1)
                             ELSE pair_part_1
           /\ pair_part_2' = IF n = 1 THEN aws_der_decoder_tlv_string(Len(stream) + 1)
                             ELSE pair_part_2
    /\ current_part' = 2
    /\ UNCHANGED <<dpc, out_public_x_coor, out_public_y_coor, out_private_d,
                   out_curve_name, curve_name_recognized, ret>>

\* Lines 171-174: a BIT_STRING or OCTET_STRING token.
ScanString(tok) ==
    /\ tok.type \in {"AWS_DER_BIT_STRING", "AWS_DER_OCTET_STRING"}
    /\ aws_der_decoder_next(tok)
    /\ IF current_part = 1
       THEN /\ pair_part_1' = aws_der_decoder_tlv_string(Len(stream) + 1)
            /\ UNCHANGED pair_part_2
       ELSE /\ pair_part_2' = aws_der_decoder_tlv_string(Len(stream) + 1)
            /\ UNCHANGED pair_part_1
    /\ current_part' = 2
    /\ UNCHANGED <<dpc, out_public_x_coor, out_public_y_coor, out_private_d,
                   out_curve_name, curve_name_recognized, ret>>

\* Lines 155-175: a token of any other type.
ScanOther(tok) ==
    /\ tok.type \notin {"AWS_DER_OBJECT_IDENTIFIER", "AWS_DER_BIT_STRING",
                        "AWS_DER_OCTET_STRING"}
    /\ aws_der_decoder_next(tok)
    /\ UNCHANGED <<dpc, out_public_x_coor, out_public_y_coor, out_private_d,
                   out_curve_name, pair_part_1, pair_part_2, current_part,
                   curve_name_recognized, ret>>

\* Lines 181, 186.
key_coordinate_size == aws_ecc_key_coordinate_byte_size_from_curve_name(out_curve_name)

\* The blob size without the format byte.
public_key_blob_size_no_format_byte == key_coordinate_size * 2

public_key_blob_size == key_coordinate_size * 2 + 1

\* Lines 183-202: which part private_key / public_key point to (0: NULL).
private_key ==
    IF pair_part_2.ptr # NullPtr /\ pair_part_2.len # 0
       /\ pair_part_2.len = key_coordinate_size THEN 2
    ELSE IF pair_part_1.ptr # NullPtr /\ pair_part_1.len # 0
       /\ pair_part_1.len = key_coordinate_size THEN 1
    ELSE 0

public_key ==
    IF pair_part_2.ptr # NullPtr /\ pair_part_2.len # 0
       /\ pair_part_2.len # key_coordinate_size
       /\ pair_part_2.len = public_key_blob_size THEN 2
    ELSE IF pair_part_1.ptr # NullPtr /\ pair_part_1.len # 0
       /\ pair_part_1.len # key_coordinate_size
       /\ pair_part_1.len = public_key_blob_size THEN 1
    ELSE 0

Part(k) == IF k = 1 THEN pair_part_1 ELSE pair_part_2

\* aws_byte_cursor_advance(cursor, n): the cursor afterwards.
aws_byte_cursor_advance(c, n) ==
    IF n > c.len THEN c
    ELSE [ptr |-> [c.ptr EXCEPT !.off = @ + n], len |-> c.len - n]

\* Lines 177-179: the stream is exhausted and no curve was recognized.
ReturnUnknownOid ==
    /\ UNCHANGED <<key_pair_vars, out_before>>
    /\ dpc = "scan"
    /\ ~curve_name_recognized
    /\ dpc' = "done"
    /\ ret' = AWS_ERROR_CAL_UNKNOWN_OBJECT_IDENTIFIER
    /\ UNCHANGED <<stream, out_public_x_coor, out_public_y_coor, out_private_d,
                   out_curve_name, pair_part_1, pair_part_2, current_part,
                   curve_name_recognized>>

\* Lines 181-206: neither part classifies.
ReturnMissingComponent ==
    /\ UNCHANGED <<key_pair_vars, out_before>>
    /\ dpc = "scan"
    /\ curve_name_recognized
    /\ private_key = 0 /\ public_key = 0
    /\ dpc' = "done"
    /\ ret' = AWS_ERROR_CAL_MISSING_REQUIRED_KEY_COMPONENT
    /\ UNCHANGED <<stream, out_public_x_coor, out_public_y_coor, out_private_d,
                   out_curve_name, pair_part_1, pair_part_2, current_part,
                   curve_name_recognized>>

\* Lines 181-220: at least one part classifies.
ReturnSuccess ==
    /\ UNCHANGED <<key_pair_vars, out_before>>
    /\ dpc = "scan"
    /\ curve_name_recognized
    /\ private_key # 0 \/ public_key # 0
    /\ out_private_d' = IF private_key # 0 THEN Part(private_key) ELSE out_private_d
    /\ IF public_key # 0
       THEN LET adv == aws_byte_cursor_advance(Part(public_key), 1)
            IN  /\ pair_part_1' = IF public_key = 1 THEN adv ELSE pair_part_1
                /\ pair_part_2' = IF public_key = 2 THEN adv ELSE pair_part_2
                /\ out_public_x_coor' = [ptr |-> adv.ptr, len |-> key_coordinate_size]
                /\ out_public_y_coor' =
                      [ptr |-> [adv.ptr EXCEPT !.off = @ + key_coordinate_size],
                       len |-> key_coordinate_size]
       ELSE UNCHANGED <<pair_part_1, pair_part_2, out_public_x_coor, out_public_y_coor>>
    /\ dpc' = "done"
    /\ ret' = AWS_OP_SUCCESS
    /\ UNCHANGED <<stream, out_curve_name, current_part, curve_name_recognized>>

NextDecoder ==
    \/ LoadEnter
    \/ \E tok \in Tokens : ScanObjectIdentifier(tok)
    \/ \E tok \in Tokens : ScanString(tok)
    \/ \E tok \in Tokens : ScanOther(tok)
    \/ ReturnUnknownOid
    \/ ReturnMissingComponent
    \/ ReturnSuccess

(***************************************************************************)
(* The key-pair handle: reference count and vtable dispatch.               *)
(***************************************************************************)
Threads == 1..NumThreads

Capabilities == {"destroy", "derive_pub_key", "sign_message", "verify_signature",
                 "signature_length"}

\* The complete vtable, and each vtable that lacks one capability.
Vtables == {Capabilities} \cup {Capabilities \ {c} : c \in Capabilities}

\* What a backend function can return.
BackendResults(cap) ==
    IF cap = "signature_length" THEN {72, 104} ELSE {"AWS_OP_SUCCESS", "AWS_OP_ERR"}

NoCall == [op |-> "none", outcome |-> "none", dispatched |-> FALSE,
           backend |-> "none", ret |-> "none"]

\* What last_call records when the backend function returned r to the caller.
Returned(cap, r) ==
    [op |-> cap, outcome |-> "returned", dispatched |-> TRUE, backend |-> r, ret |-> r]

\* What last_call records when AWS_FATAL_ASSERT terminated the process.
FatalAssert(cap) ==
    [op |-> cap, outcome |-> "aborted", dispatched |-> FALSE,
     backend |-> "none", ret |-> "none"]

\* The key pair as its factory hands it out: one reference, held by thread 1.
KeyPairInit ==
    /\ ref_count = 1
    /\ vtable \in Vtables
    /\ held = [t \in Threads |-> IF t = 1 THEN 1 ELSE 0]
    /\ kpc = [t \in Threads |-> "idle"]
    /\ old_value = [t \in Threads |-> 0]
    /\ destroy_calls = 0
    /\ destroyed_at = {}
    /\ aborted = FALSE
    /\ last_call = NoCall
    /\ acquires = 0
    /\ releases = 0

\* A thread may call into the key pair while the process runs and the thread is not
\* inside aws_ecc_key_pair_release.
CanCall(t) == ~aborted /\ kpc[t] = "idle"

\* The count is read, not incremented.
aws_ecc_key_pair_acquire_no_increment(t) ==
    /\ UNCHANGED decoder_vars
    /\ CanCall(t)
    /\ \E u \in Threads : held[u] >= 1
    /\ acquires < MaxAcquires
    /\ held' = [held EXCEPT ![t] = @ + 1]
    /\ acquires' = acquires + 1
    /\ UNCHANGED <<ref_count, vtable, kpc, old_value, destroy_calls, destroyed_at, aborted,
                   last_call, releases>>

\* Lines 223-225.  The caller passes a live key pair: some owning reference exists.
aws_ecc_key_pair_acquire(t) ==
    /\ UNCHANGED decoder_vars
    /\ CanCall(t)
    /\ \E u \in Threads : held[u] >= 1
    /\ acquires < MaxAcquires
    /\ ref_count' = ref_count + 1
    /\ held' = [held EXCEPT ![t] = @ + 1]
    /\ acquires' = acquires + 1
    /\ UNCHANGED <<vtable, kpc, old_value, destroy_calls, destroyed_at, aborted,
                   last_call, releases>>

\* Line 228: the atomic fetch-sub of a release by a thread giving up a reference it holds.
ReleaseFetchSub(t) ==
    /\ UNCHANGED decoder_vars
    /\ CanCall(t)
    /\ held[t] >= 1
    /\ old_value' = [old_value EXCEPT ![t] = ref_count]
    /\ ref_count' = ref_count - 1
    /\ held' = [held EXCEPT ![t] = @ - 1]
    /\ kpc' = [kpc EXCEPT ![t] = "released"]
    /\ releases' = releases + 1
    /\ UNCHANGED <<vtable, destroy_calls, destroyed_at, aborted, last_call, acquires>>

\* The test against the value left behind instead of the value observed.
release_saw_last_new_value(old) == old - 1 = 1

\* The test against zero.
release_saw_last_zero(old) == old = 0

\* Line 230.
release_saw_last(old) == old = 1

\* Lines 230-233 when the test fails: the release returns.
ReleaseReturn(t) ==
    /\ UNCHANGED decoder_vars
    /\ ~aborted
    /\ kpc[t] = "released"
    /\ ~release_saw_last(old_value[t])
    /\ kpc' = [kpc EXCEPT ![t] = "idle"]
    /\ UNCHANGED <<ref_count, vtable, held, old_value, destroy_calls, destroyed_at,
                   aborted, last_call, acquires, releases>>

\* Lines 230-232 and 74-79: the release that observed 1 calls s_aws_ecc_key_pair_destroy.
ReleaseDestroy(t) ==
    /\ UNCHANGED decoder_vars
    /\ ~aborted
    /\ kpc[t] = "released"
    /\ release_saw_last(old_value[t])
    /\ kpc' = [kpc EXCEPT ![t] = "idle"]
    /\ IF "destroy" \in vtable
       THEN /\ destroy_calls' = destroy_calls + 1
            /\ destroyed_at' = destroyed_at \cup
                                 {[count |-> ref_count, old |-> old_value[t]]}
            /\ last_call' = Returned("destroy", "none")
            /\ UNCHANGED aborted
       ELSE /\ aborted' = TRUE
            /\ last_call' = FatalAssert("destroy")
            /\ UNCHANGED <<destroy_calls, destroyed_at>>
    /\ UNCHANGED <<ref_count, vtable, held, old_value, acquires, releases>>

(***************************************************************************)
(* The forwarding operations.  The caller holds a reference to the key     *)
(* pair.  Each asserts its vtable entry and returns what the entry returns.*)
(***************************************************************************)
\* Lines 81-84.
aws_ecc_key_pair_derive_public_key(t) ==
    /\ UNCHANGED decoder_vars
    /\ CanCall(t)
    /\ held[t] >= 1
    /\ IF "derive_pub_key" \in vtable
       THEN /\ \E r \in BackendResults("derive_pub_key") : last_call' = Returned("derive_pub_key", r)
            /\ UNCHANGED aborted
       ELSE /\ aborted' = TRUE
            /\ last_call' = FatalAssert("derive_pub_key")
    /\ UNCHANGED <<ref_count, vtable, held, kpc, old_value, destroy_calls, destroyed_at,
                   acquires, releases>>

\* The function without its AWS_FATAL_ASSERT: the entry is called whatever it holds.
aws_ecc_key_pair_sign_message_unchecked(t) ==
    /\ UNCHANGED decoder_vars
    /\ CanCall(t)
    /\ held[t] >= 1
    /\ \E r \in BackendResults("sign_message") : last_call' = Returned("sign_message", r)
    /\ UNCHANGED <<ref_count, vtable, held, kpc, old_value, destroy_calls, destroyed_at,
                   aborted, acquires, releases>>

\* Lines 86-92.
aws_ecc_key_pair_sign_message(t) ==
    /\ UNCHANGED decoder_vars
    /\ CanCall(t)
    /\ held[t] >= 1
    /\ IF "sign_message" \in vtable
       THEN /\ \E r \in BackendResults("sign_message") : last_call' = Returned("sign_message", r)
            /\ UNCHANGED aborted
       ELSE /\ aborted' = TRUE
            /\ last_call' = FatalAssert("sign_message")
    /\ UNCHANGED <<ref_count, vtable, held, kpc, old_value, destroy_calls, destroyed_at,
                   acquires, releases>>

\* Lines 94-101.
aws_ecc_key_pair_verify_signature(t) ==
    /\ UNCHANGED decoder_vars
    /\ CanCall(t)
    /\ held[t] >= 1
    /\ IF "verify_signature" \in vtable
       THEN /\ \E r \in BackendResults("verify_signature") : last_call' = Returned("verify_signature", r)
            /\ UNCHANGED aborted
       ELSE /\ aborted' = TRUE
            /\ last_call' = FatalAssert("verify_signature")
    /\ UNCHANGED <<ref_count, vtable, held, kpc, old_value, destroy_calls, destroyed_at,
                   acquires, releases>>

\* Lines 103-107.
aws_ecc_key_pair_signature_length(t) ==
    /\ UNCHANGED decoder_vars
    /\ CanCall(t)
    /\ held[t] >= 1
    /\ IF "signature_length" \in vtable
       THEN /\ \E r \in BackendResults("signature_length") : last_call' = Returned("signature_length", r)
            /\ UNCHANGED aborted
       ELSE /\ aborted' = TRUE
            /\ last_call' = FatalAssert("signature_length")
    /\ UNCHANGED <<ref_count, vtable, held, kpc, old_value, destroy_calls, destroyed_at,
                   acquires, releases>>

NextKeyPair ==
    \/ \E t \in Threads : aws_ecc_key_pair_acquire(t)
    \/ \E t \in Threads : ReleaseFetchSub(t)
    \/ \E t \in Threads : ReleaseReturn(t)
    \/ \E t \in Threads : ReleaseDestroy(t)
    \/ \E t \in Threads : aws_ecc_key_pair_derive_public_key(t)
    \/ \E t \in Threads : aws_ecc_key_pair_sign_message(t)
    \/ \E t \in Threads : aws_ecc_key_pair_verify_signature(t)
    \/ \E t \in Threads : aws_ecc_key_pair_signature_length(t)

(***************************************************************************)
(* Specifications.                                                         *)
(***************************************************************************)
\* The decoder runs; no key pair is in use.
Init == DecoderInit /\ KeyPairInit /\ vtable = Capabilities

Next == NextDecoder

Spec == Init /\ [][Next]_vars

\* The key pair is in use; no decode is running.
InitKeyPair ==
    /\ KeyPairInit
    /\ DecoderInit /\ out_before = ZeroCursor /\ out_curve_name = "unset"

SpecKeyPair == InitKeyPair /\ [][NextKeyPair]_vars

(***************************************************************************)
(* What the stream read so far says, stated on the tokens themselves.      *)
(***************************************************************************)
Done == dpc = "done"

IsString(tok) == tok.type \in {"AWS_DER_BIT_STRING", "AWS_DER_OCTET_STRING"}

StringIdx == {i \in 1..Len(stream) : IsString(stream[i])}

CurveOidIdx ==
    {i \in 1..Len(stream) : /\ stream[i].type = "AWS_DER_OBJECT_IDENTIFIER"
                            /\ stream[i].value \in {s_p256_oid, s_p384_oid}}

Max(S) == CHOOSE x \in S : \A y \in S : y <= x
Min(S) == CHOOSE x \in S : \A y \in S : x <= y

CurveOfOid(v) == IF v = s_p256_oid THEN AWS_CAL_ECDSA_P256 ELSE AWS_CAL_ECDSA_P384

\* The curve of the last OID token that is a curve OID.
LastCurve == CurveOfOid(stream[Max(CurveOidIdx)].value)

CoordSize(c) == IF c = AWS_CAL_ECDSA_P256 THEN 32 ELSE 48

\* The cursor over the whole of token k.
TokenCursor(k) == [ptr |-> [region |-> "der", tok |-> k, off |-> 0],
                   len |-> Len(stream[k].value)]

Failed == Done /\ ret # AWS_OP_SUCCESS

(***************************************************************************)
(* C3: a stream in which no OBJECT_IDENTIFIER token is a supported curve   *)
(* OID fails with UnknownObjectIdentifier, whatever string tokens it       *)
(* holds; the check comes before MissingRequiredKeyComponent.              *)
(***************************************************************************)
C3_UnknownOidFirst ==
    (Done /\ CurveOidIdx = {}) => ret = AWS_ERROR_CAL_UNKNOWN_OBJECT_IDENTIFIER

\* A failed decode of a stream with an unmatched OID, a 32-byte and a 65-byte string.
C3_Witness ==
    /\ Done /\ CurveOidIdx = {}
    /\ ret = AWS_ERROR_CAL_UNKNOWN_OBJECT_IDENTIFIER
    /\ \E i \in 1..Len(stream) : stream[i].type = "AWS_DER_OBJECT_IDENTIFIER"
    /\ \E i, j \in StringIdx : Len(stream[i].value) = 32 /\ Len(stream[j].value) = 65

(***************************************************************************)
(* C4: with a recognized curve, the decode fails with                      *)
(* MissingRequiredKeyComponent exactly when neither captured slot has      *)
(* length coordinate_size or 2*coordinate_size+1 (so also when the stream  *)
(* has no string token); otherwise it succeeds, and a component no slot    *)
(* supplies is returned empty.  Stated on the returning step: the slots    *)
(* are the parts as captured, the results are those after the return.      *)
(***************************************************************************)
C4_MissingExactly ==
    [][ (dpc = "scan" /\ dpc' = "done" /\ CurveOidIdx # {}) =>
          LET n == CoordSize(LastCurve)
              lens == {pair_part_1.len, pair_part_2.len}
          IN  /\ ret' \in {AWS_OP_SUCCESS, AWS_ERROR_CAL_MISSING_REQUIRED_KEY_COMPONENT}
              /\ (ret' = AWS_ERROR_CAL_MISSING_REQUIRED_KEY_COMPONENT)
                    <=> (n \notin lens /\ (2 * n + 1) \notin lens)
              /\ StringIdx = {} => ret' = AWS_ERROR_CAL_MISSING_REQUIRED_KEY_COMPONENT
              /\ ret' = AWS_OP_SUCCESS =>
                    /\ (n \notin lens) <=> (out_private_d' = ZeroCursor)
                    /\ ((2 * n + 1) \notin lens) <=>
                          (out_public_x_coor' = ZeroCursor /\ out_public_y_coor' = ZeroCursor)
      ]_vars

\* A successful decode that found a public blob and no private scalar.
C4_Witness ==
    /\ Done /\ CurveOidIdx # {} /\ ret = AWS_OP_SUCCESS
    /\ out_private_d = ZeroCursor
    /\ out_public_x_coor.len = CoordSize(LastCurve)
    /\ Cardinality(StringIdx) = 2

(***************************************************************************)
(* C5: whenever the decode fails, the three output views are zeroed,       *)
(* whatever they held before the call.                                     *)
(***************************************************************************)
C5_NoPartialCommit ==
    Failed => /\ out_public_x_coor = ZeroCursor
              /\ out_public_y_coor = ZeroCursor
              /\ out_private_d = ZeroCursor

\* A MissingRequiredKeyComponent failure of a call entered with stale output views.
C5_Witness ==
    /\ Failed /\ ret = AWS_ERROR_CAL_MISSING_REQUIRED_KEY_COMPONENT
    /\ out_before = StaleCursor
    /\ StringIdx # {}
    /\ out_private_d = ZeroCursor

(***************************************************************************)
(* C6: for a stream whose curve OID tokens all name one curve c, with      *)
(* coordinate size n, and with at most two string tokens: the private      *)
(* view is the string token of length n (empty if there is none); the      *)
(* public X and Y views are bytes 1..n and n+1..2n (counting from 0) of    *)
(* the string token of length 2n+1 whose first byte is 0x04 (both empty    *)
(* if there is none); populated views have length n; the curve is c.       *)
(***************************************************************************)
C6_DecodedViews ==
    (Done /\ CurveOidIdx # {} /\ Cardinality(StringIdx) <= 2
          /\ \A i \in CurveOidIdx : CurveOfOid(stream[i].value) = LastCurve) =>
       LET n == CoordSize(LastCurve)
           priv == {i \in StringIdx : Len(stream[i].value) = n}
           pub == {i \in StringIdx : /\ Len(stream[i].value) = 2 * n + 1
                                     /\ stream[i].value[1] = 4}
       IN  /\ out_curve_name = LastCurve
           /\ IF priv = {} THEN CursorBytes(out_private_d) = <<>>
              ELSE \E i \in priv : CursorBytes(out_private_d) = stream[i].value
           /\ IF pub = {}
              THEN CursorBytes(out_public_x_coor) = <<>> /\ CursorBytes(out_public_y_coor) = <<>>
              ELSE \E i \in pub :
                      /\ CursorBytes(out_public_x_coor) = SubSeq(stream[i].value, 2, n + 1)
                      /\ CursorBytes(out_public_y_coor) =
                            SubSeq(stream[i].value, n + 2, 2 * n + 1)
           /\ \A c \in {out_private_d, out_public_x_coor, out_public_y_coor} :
                 c.len # 0 => c.len = n

\* The same statement over the streams whose blobs of length 2n+1 all start with 0x04.
C6_DecodedViewsFormatByteGiven ==
    (\A i \in StringIdx : Len(stream[i].value) \in {65, 97} => stream[i].value[1] = 4)
       => C6_DecodedViews

(***************************************************************************)
(* C9: a successful decode never exposes populated public X / Y views      *)
(* taken from a blob whose first byte is not the format indicator 0x04.    *)
(***************************************************************************)
C9_FormatByteVerified ==
    (Done /\ ret = AWS_OP_SUCCESS /\ out_public_x_coor.len # 0) =>
       stream[out_public_x_coor.ptr.tok].value[1] = 4

(***************************************************************************)
(* C8, as claimed: only the first two string tokens are captured, the      *)
(* first in part1 and the second in part2; later ones change neither.      *)
(***************************************************************************)
C8_OnlyFirstTwoCaptured ==
    dpc = "scan" =>
       /\ pair_part_1 = IF StringIdx = {} THEN ZeroCursor ELSE TokenCursor(Min(StringIdx))
       /\ pair_part_2 = IF Cardinality(StringIdx) < 2 THEN ZeroCursor
                        ELSE TokenCursor(Min(StringIdx \ {Min(StringIdx)}))

(***************************************************************************)
(* C8, amended: the first string token is captured in part1 and every      *)
(* later one in part2, so that part2 holds the last string token; a third  *)
(* or later string token overwrites part2 and never part1, and every view  *)
(* a decode returns lies in the first or in the last string token.         *)
(***************************************************************************)
C8_FirstAndLastCaptured ==
    /\ dpc = "scan" =>
          /\ pair_part_1 = IF StringIdx = {} THEN ZeroCursor ELSE TokenCursor(Min(StringIdx))
          /\ pair_part_2 = IF Cardinality(StringIdx) < 2 THEN ZeroCursor
                           ELSE TokenCursor(Max(StringIdx))
    /\ Done =>
          \A c \in {out_private_d, out_public_x_coor, out_public_y_coor} :
             c.len # 0 => c.ptr.tok \in {Min(StringIdx), Max(StringIdx)}

\* A decode of three string tokens that returns the third as the private scalar.
C8_Witness ==
    /\ Done /\ ret = AWS_OP_SUCCESS
    /\ Cardinality(StringIdx) = 3
    /\ out_private_d.len # 0
    /\ out_private_d.ptr.tok = Max(StringIdx)

(***************************************************************************)
(* C10: the curve reported, and used for the coordinate size, is that of   *)
(* the last OID token that is a supported curve OID, wherever it stands;   *)
(* an OID token that is no supported curve neither fails the decode nor    *)
(* changes or clears the curve recognized before it.                       *)
(***************************************************************************)
C10_LastCurveOidWins ==
    /\ dpc \in {"scan", "done"} =>
          /\ curve_name_recognized <=> (CurveOidIdx # {})
          /\ CurveOidIdx # {} => out_curve_name = LastCurve
    /\ (Done /\ CurveOidIdx # {}) =>
          /\ ret # AWS_ERROR_CAL_UNKNOWN_OBJECT_IDENTIFIER
          /\ \A c \in {out_private_d, out_public_x_coor, out_public_y_coor} :
                c.len # 0 => c.len = CoordSize(LastCurve)

\* Two different curve OIDs, then an OID that is no curve, and a key of the second curve.
C10_Witness ==
    /\ Done /\ ret = AWS_OP_SUCCESS
    /\ \E i, j, k \in 1..Len(stream) :
          /\ i < j /\ j < k
          /\ stream[i].type = "AWS_DER_OBJECT_IDENTIFIER" /\ stream[i].value = s_p256_oid
          /\ stream[j].type = "AWS_DER_OBJECT_IDENTIFIER" /\ stream[j].value = s_p384_oid
          /\ stream[k].type = "AWS_DER_OBJECT_IDENTIFIER" /\ stream[k].value = ec_public_key_oid
    /\ out_curve_name = AWS_CAL_ECDSA_P384
    /\ out_private_d.len = 48

(***************************************************************************)
(* C1: with the references held by independent owners that release them    *)
(* in any interleaving, the backend destroy is invoked at most once, only  *)
(* by the release whose fetch-sub returned 1 and only when the count is 0; *)
(* at most one release observes 1; and once every reference has been       *)
(* released and every release has returned, destroy has been invoked       *)
(* exactly once.                                                           *)
(***************************************************************************)
AllIdle == \A t \in Threads : kpc[t] = "idle"

C1_DestroyExactlyOnce ==
    /\ destroy_calls <= 1
    /\ \A d \in destroyed_at : d.old = 1 /\ d.count = 0
    /\ destroy_calls >= 1 => ref_count = 0
    /\ Cardinality({t \in Threads : kpc[t] = "released" /\ old_value[t] = 1}) <= 1
    /\ (\E t \in Threads : kpc[t] = "released" /\ old_value[t] = 1) => destroy_calls = 0
    /\ (AllIdle /\ ~aborted /\ \A t \in Threads : held[t] = 0) => destroy_calls = 1

\* destroy has run, for the release that saw 1, while another owner's release, which saw
\* 2, has not yet returned.
C1_Witness ==
    /\ destroy_calls = 1
    /\ destroyed_at = {[count |-> 0, old |-> 1]}
    /\ \E t \in Threads : kpc[t] = "released" /\ old_value[t] = 2

(***************************************************************************)
(* C2: from count 1, as long as no more releases than acquires have been   *)
(* made the count is 1 + acquires - releases (1 once the pairs are         *)
(* complete) and destroy has not been invoked; after one release more,     *)
(* once it has returned, destroy has been invoked exactly once.            *)
(***************************************************************************)
C2_PairedAcquireRelease ==
    /\ releases <= acquires =>
          /\ ref_count = 1 + acquires - releases
          /\ destroy_calls = 0
          /\ last_call.op # "destroy"
    /\ (AllIdle /\ releases = acquires + 1) =>
          /\ ref_count = 0
          /\ IF "destroy" \in vtable THEN destroy_calls = 1
             ELSE destroy_calls = 0 /\ aborted

\* Two pairs made by two threads, then the one release more, and the single destroy.
C2_Witness ==
    /\ AllIdle /\ acquires >= 2 /\ releases = acquires + 1
    /\ destroy_calls = 1 /\ ref_count = 0

(***************************************************************************)
(* C7: an operation whose capability the vtable lacks terminates the       *)
(* process without returning and without the backend being called; with    *)
(* the capability present it returns the backend's result.  For destroy    *)
(* the check is made only by the release that takes the count from 1 to 0. *)
(***************************************************************************)
C7_MissingCapabilityIsFatal ==
    /\ last_call.op # "none" =>
          IF last_call.op \in vtable
          THEN /\ last_call.outcome = "returned"
               /\ last_call.dispatched
               /\ last_call.ret = last_call.backend
          ELSE /\ last_call.outcome = "aborted"
               /\ ~last_call.dispatched
               /\ aborted
    /\ aborted => last_call.outcome = "aborted" /\ last_call.op \notin vtable
    /\ last_call.op = "destroy" => ref_count = 0
    /\ destroy_calls >= 1 => "destroy" \in vtable
    /\ ("destroy" \notin vtable /\ ref_count >= 1) => ~aborted

\* On a vtable without destroy a first release returned, and the release that took the
\* count to 0 terminated the process.
C7_Witness ==
    /\ aborted /\ "destroy" \notin vtable
    /\ last_call = FatalAssert("destroy")
    /\ releases >= 2 /\ destroy_calls = 0

====
